---- MODULE Spec2Model ----
(***************************************************************************)
(* A model of gpflow/misc.py (is_number, is_valid_param_value,             *)
(* normalize_num_type, vec_to_tri) and of gpflow/models/sgpmc.py (the      *)
(* SGPMC model: construction, the V accessor, _build_likelihood and        *)
(* _build_predict).                                                        *)
(*                                                                         *)
(* Each of the four components has its own variables and its own           *)
(* specification (SpecTri, SpecNorm, SpecParam, Spec); a specification     *)
(* leaves the variables of the other components at their idle values.      *)
(***************************************************************************)
EXTENDS Integers, Sequences, FiniteSets, TLC

VARIABLES
    \* vec_to_tri: the call's position, its arguments and its result
    tri_pc, vectors, N, tri_out,
    \* normalize_num_type: position, argument, settings module, outcome
    norm_pc, num_type, settings, norm_out,
    \* is_valid_param_value / is_number: position, argument, results
    pv_pc, value, pv_out,
    \* SGPMC: position, constructor arguments, the object's attributes,
    \* and the record of the last operation performed on it
    pc, args, num_data, num_latent, feature, V, V_prior, parameters, last_op

tri_vars   == <<tri_pc, vectors, N, tri_out>>
norm_vars  == <<norm_pc, num_type, settings, norm_out>>
pv_vars    == <<pv_pc, value, pv_out>>
sgpmc_vars == <<pc, args, num_data, num_latent, feature, V, V_prior, parameters, last_op>>
vars       == <<tri_vars, norm_vars, pv_vars, sgpmc_vars>>

\* The sum of f over the finite set S of its arguments.
RECURSIVE SetSum(_, _)
SetSum(S, f) ==
    IF S = {} THEN 0
    ELSE LET x == CHOOSE y \in S : TRUE
         IN  f[x] + SetSum(S \ {x}, f)

(***************************************************************************)
(* vec_to_tri (misc.py:87-109)                                             *)
(***************************************************************************)

\* Bounds: the largest matrix size and the largest batch size tried.
MaxN == 3
MaxD == 2

\* The positions of an N x N array in C (row-major) order, 0-based.
RowMajor(n) == [p \in 1..(n * n) |-> <<(p - 1) \div n, (p - 1) % n>>]

\* A plausible slip: the lower triangle enumerated column by column.
tril_indices_colmajor(n) ==
    LET ColMajor == [p \in 1..(n * n) |-> <<(p - 1) % n, (p - 1) \div n>>]
    IN  SelectSeq(ColMajor, LAMBDA ij : ij[2] <= ij[1])

\* np.tril_indices(n): the non-zero positions of the mask col <= row, which
\* numpy returns in row-major order; zipped into (row, col) pairs.
tril_indices(n) == SelectSeq(RowMajor(n), LAMBDA ij : ij[2] <= ij[1])

\* A plausible slip: the updates scattered to (col, row).
scatter_nd_transposed(indices, n, updates) ==
    [ij \in (0..(n - 1)) \X (0..(n - 1)) |->
        SetSum({k \in 1..Len(indices) : indices[k] = <<ij[2], ij[1]>>}, updates)]

\* tf.scatter_nd(indices, shape=[n, n], updates): a zero array to which
\* updates[k] is added at position indices[k].
scatter_nd(indices, n, updates) ==
    [ij \in (0..(n - 1)) \X (0..(n - 1)) |->
        SetSum({k \in 1..Len(indices) : indices[k] = ij}, updates)]

\* vec_to_tri: the index list is built once; tf.map_fn applies
\* vec_to_tri_vector to each vector of the first dimension, in order.
vec_to_tri(vecs, n) ==
    LET indices == tril_indices(n)
        vec_to_tri_vector(vector) == scatter_nd(indices, n, vector)
    IN  [d \in 1..Len(vecs) |-> vec_to_tri_vector(vecs[d])]

\* The number of lower-triangular entries of an n x n matrix.
TriLen(n) == (n * (n + 1)) \div 2

\* The vectors of length m tried: zero, 1..m, m..1 and the unit vectors.
VecSet(m) ==
    {[k \in 1..m |-> 0], [k \in 1..m |-> k], [k \in 1..m |-> m + 1 - k]}
    \cup {[k \in 1..m |-> IF k = u THEN 1 ELSE 0] : u \in 1..m}

TriIdle == tri_pc = "idle" /\ vectors = <<>> /\ N = 0 /\ tri_out = <<>>

TriInit ==
    /\ tri_pc = "start"
    /\ N \in 1..MaxN
    /\ \E D \in 1..MaxD : vectors \in [1..D -> VecSet(TriLen(N))]
    /\ tri_out = <<>>

VecToTri ==
    /\ tri_pc = "start"
    /\ tri_out' = vec_to_tri(vectors, N)
    /\ tri_pc' = "done"
    /\ UNCHANGED <<vectors, N>>
    /\ UNCHANGED <<norm_vars, pv_vars, sgpmc_vars>>

(***************************************************************************)
(* normalize_num_type (misc.py:69-84)                                      *)
(*                                                                         *)
(* A type descriptor is a record [kind, name]:                             *)
(*   kind "np"       a numpy scalar type (np.float32, ...), name its name  *)
(*   kind "np.dtype" a numpy dtype instance, name the scalar type's name   *)
(*   kind "tf"       a tf.DType handle, name its TensorFlow name           *)
(*   kind "py"       a Python builtin class (float, int, ...)              *)
(***************************************************************************)

NpNames ==
    {"float16", "float32", "float64", "int8", "int16", "int32", "int64",
     "uint8", "uint16", "uint32", "uint64", "complex64", "complex128",
     "bool_", "object_"}

TfNames ==
    {"half", "float", "double", "int8", "int16", "int32", "int64",
     "uint8", "uint16", "complex64", "complex128", "bool", "string"}

PyNames == {"float", "int", "bool", "complex", "str"}

np(name) == [kind |-> "np", name |-> name]

Descriptors ==
    {[kind |-> "np", name |-> n] : n \in NpNames}
    \cup {[kind |-> "np.dtype", name |-> n] : n \in NpNames}
    \cup {[kind |-> "tf", name |-> n] : n \in TfNames}
    \cup {[kind |-> "py", name |-> n] : n \in PyNames}

\* tf.DType.as_numpy_dtype(.type): TensorFlow's table from its own type
\* names to numpy scalar types.
as_numpy_dtype(t) ==
    CASE t.name = "half"   -> np("float16")
      [] t.name = "float"  -> np("float32")
      [] t.name = "double" -> np("float64")
      [] t.name = "bool"   -> np("bool_")
      [] t.name = "string" -> np("object_")
      [] OTHER             -> np(t.name)

\* Python's `x == c` for a numpy scalar type c: a numpy scalar type equals
\* only itself, a dtype instance equals the scalar type it describes, and a
\* builtin class or a tf.DType equals no numpy scalar type.
PyEq(x, c) ==
    /\ x.kind \in {"np", "np.dtype"}
    /\ x.name = c.name

\* Python's `x in [c1, c2, ...]`.
PyIn(x, cs) == \E c \in cs : PyEq(x, c)

Returned(v) == [status |-> "return", exc |-> "", value |-> v]
Raised(exc, v) == [status |-> "raise", exc |-> exc, value |-> v]

\* A plausible slip: int16 left out of the integer list.
normalize_num_type_no_int16(t, cfg) ==
    LET unwrapped == IF t.kind = "tf" THEN as_numpy_dtype(t) ELSE t
    IN  IF PyIn(unwrapped, {np("float32"), np("float64")})
        THEN Returned(cfg.float_type)
        ELSE IF PyIn(unwrapped, {np("int32"), np("int64")})
        THEN Returned(cfg.int_type)
        ELSE Raised("ValueError", unwrapped)

\* The outcome of normalize_num_type(t) under the settings cfg: the type
\* returned, or the ValueError raised and the descriptor its message names.
normalize_num_type(t, cfg) ==
    LET unwrapped == IF t.kind = "tf" THEN as_numpy_dtype(t) ELSE t
    IN  IF PyIn(unwrapped, {np("float32"), np("float64")})
        THEN Returned(cfg.float_type)
        ELSE IF PyIn(unwrapped, {np("int16"), np("int32"), np("int64")})
        THEN Returned(cfg.int_type)
        ELSE Raised("ValueError", unwrapped)

\* The values settings.float_type and settings.int_type may be configured to.
Settings ==
    [float_type : {np("float32"), np("float64")},
     int_type   : {np("int32"), np("int64")}]

NoType == [kind |-> "", name |-> ""]
NoSettings == [float_type |-> NoType, int_type |-> NoType]
NoOutcome == [status |-> "", exc |-> "", value |-> NoType]

NormIdle ==
    norm_pc = "idle" /\ num_type = NoType /\ settings = NoSettings /\ norm_out = NoOutcome

NormInit ==
    /\ norm_pc = "start"
    /\ num_type \in Descriptors
    /\ settings \in Settings
    /\ norm_out = NoOutcome

Normalize ==
    /\ norm_pc = "start"
    /\ norm_out' = normalize_num_type(num_type, settings)
    /\ norm_pc' = "done"
    /\ UNCHANGED <<num_type, settings>>
    /\ UNCHANGED <<tri_vars, pv_vars, sgpmc_vars>>

(***************************************************************************)
(* is_number and is_valid_param_value (misc.py:34-67)                      *)
(*                                                                         *)
(* A Python value is a record [cls, items]: cls is the name of its class   *)
(* and items the elements of a list (empty for every other class).         *)
(***************************************************************************)

\* Bound: the longest list tried.
MaxListLen == 3

\* The classes of the values tried that are not lists.
AtomClasses ==
    {"float", "int", "bool", "complex", "str", "bytes", "NoneType",
     "np.float64", "np.float32", "np.int64", "np.str_",
     "np.ndarray", "tf.Tensor", "tf.Variable", "dict"}

\* The classes of the elements tried inside a list.
ElemClasses ==
    {"float", "int", "bool", "complex", "str", "NoneType",
     "np.float64", "np.float32", "list", "np.ndarray", "tf.Tensor"}

Obj(c) == [cls |-> c, items |-> <<>>]

\* The class c and the classes it inherits from (Python 3, numpy):
\* bool is an int, np.float64 is a float, np.str_ is a str.
Bases(c) ==
    {c} \cup
    CASE c = "bool"       -> {"int"}
      [] c = "np.float64" -> {"float", "np.generic"}
      [] c = "np.float32" -> {"np.generic"}
      [] c = "np.int64"   -> {"np.generic"}
      [] c = "np.str_"    -> {"str", "np.generic"}
      [] OTHER            -> {}

\* isinstance(v, classes)
isinstance(v, classes) == Bases(v.cls) \cap classes # {}

\* np.isscalar(v): an instance of np.generic, or a value whose exact type is
\* one of numpy's ScalarType builtins (text and bytes among them).
np_isscalar(v) ==
    \/ isinstance(v, {"np.generic"})
    \/ v.cls \in {"int", "float", "complex", "bool", "bytes", "str"}

is_ndarray(v) == isinstance(v, {"np.ndarray"})

is_list(v) == isinstance(v, {"list"})

is_tensor(v) == isinstance(v, {"tf.Tensor", "tf.Variable"})

is_number(v) == (~ isinstance(v, {"str"})) /\ np_isscalar(v)

\* A plausible slip: any() where all() is meant.
is_valid_param_value_any(v) ==
    IF isinstance(v, {"list"})
    THEN IF v.items = <<>> THEN FALSE
         ELSE LET zero_val == v.items[1]
                  arrays   == {"list", "np.ndarray"}
                  scalars  == {"float", "int"}
                  rest     == 2..Len(v.items)
              IN  IF isinstance(zero_val, scalars)
                  THEN \E i \in rest : isinstance(v.items[i], scalars)
                  ELSE IF isinstance(zero_val, arrays)
                  THEN \E i \in rest : isinstance(v.items[i], arrays)
                  ELSE FALSE
    ELSE (((v.cls # "NoneType") /\ is_number(v)) \/ is_ndarray(v)) \/ is_tensor(v)

\* Python groups `a and b or c or d` as ((a and b) or c) or d.
is_valid_param_value(v) ==
    IF isinstance(v, {"list"})
    THEN IF v.items = <<>> THEN FALSE
         ELSE LET zero_val == v.items[1]
                  arrays   == {"list", "np.ndarray"}
                  scalars  == {"float", "int"}
                  rest     == 2..Len(v.items)
              IN  IF isinstance(zero_val, scalars)
                  THEN \A i \in rest : isinstance(v.items[i], scalars)
                  ELSE IF isinstance(zero_val, arrays)
                  THEN \A i \in rest : isinstance(v.items[i], arrays)
                  ELSE FALSE
    ELSE (((v.cls # "NoneType") /\ is_number(v)) \/ is_ndarray(v)) \/ is_tensor(v)

\* The values tried: every non-list class, and every list of at most
\* MaxListLen elements.
Values ==
    {Obj(c) : c \in AtomClasses}
    \cup {[cls |-> "list", items |-> xs] :
            xs \in UNION {[1..n -> {Obj(c) : c \in ElemClasses}] : n \in 0..MaxListLen}}

NoCall == [fn |-> "", result |-> FALSE]

ParamIdle == pv_pc = "idle" /\ value = Obj("") /\ pv_out = NoCall

ParamInit ==
    /\ pv_pc = "start"
    /\ value \in Values
    /\ pv_out = NoCall

CallIsValidParamValue ==
    /\ pv_pc = "start"
    /\ pv_out' = [fn |-> "is_valid_param_value", result |-> is_valid_param_value(value)]
    /\ pv_pc' = "done"
    /\ UNCHANGED value
    /\ UNCHANGED <<tri_vars, norm_vars, sgpmc_vars>>

CallIsNumber ==
    /\ pv_pc = "start"
    /\ pv_out' = [fn |-> "is_number", result |-> is_number(value)]
    /\ pv_pc' = "done"
    /\ UNCHANGED value
    /\ UNCHANGED <<tri_vars, norm_vars, sgpmc_vars>>

(***************************************************************************)
(* SGPMC (models/sgpmc.py:25-103)                                          *)
(*                                                                         *)
(* Arrays are sequences of rows.  X has one input dimension, so a row of   *)
(* X is a number; Y, V and a predictive mean are sequences of rows of      *)
(* numbers.  Numbers are integers.                                         *)
(***************************************************************************)

\* Bounds: the most data rows, columns of Y, inducing points, and the
\* largest num_latent argument tried.
MaxRows == 2
MaxR == 2
MaxM == 2
MaxL == 2

\* An optional integer argument: None, or a supplied value.
None == [given |-> FALSE, val |-> 0]
Some(n) == [given |-> TRUE, val |-> n]

\* Python's truth value of an optional integer: None and 0 are false.
Truthy(opt) == opt.given /\ opt.val # 0

\* The sum of the numbers of a sequence.
RECURSIVE SeqSum(_)
SeqSum(xs) == IF xs = <<>> THEN 0 ELSE xs[1] + SeqSum(Tail(xs))

\* The constructor arguments tried.
XSet == {[n \in 1..rows |-> n - 1 + x0] : rows \in 1..MaxRows, x0 \in {0, 1}}
YSet(rows) == {[n \in 1..rows |-> [r \in 1..cols |-> (n * r) % 3]] : cols \in 1..MaxR}
ZSet == {[m \in 1..M |-> m - 1] : M \in 1..MaxM}
NumLatentArgs == {None} \cup {Some(n) : n \in 0..MaxL}
MeanFunctions == {"None", "Linear"}

Args ==
    UNION {[X : {x}, Y : YSet(Len(x)), via : {"feat", "Z"}, Z : ZSet,
            mean_function : MeanFunctions, num_latent : NumLatentArgs] : x \in XSet}

\* GPModel.__init__: stores the data, the kernel, the likelihood and the
\* mean function (Zero when none is given) and leaves the base model's
\* parameter list.
GPModel_init(a) ==
    [X |-> a.X, Y |-> a.Y, kern |-> "kern", likelihood |-> "likelihood",
     mean_function |-> IF a.mean_function = "None" THEN "Zero" ELSE a.mean_function,
     parameters |-> <<"kern", "likelihood", "mean_function">>]

\* inducingpoint_wrapper(feat, Z): the feature given, or the inducing
\* points Z wrapped as a feature.
inducingpoint_wrapper(a) == [Z |-> a.Z]

\* len(self.feature)
feature_len(feat) == Len(feat.Z)

\* A plausible slip: the caller's num_latent ignored.
num_latent_ignored(arg, Y) == Len(Y[1])

\* num_latent or Y.shape[1]
num_latent_or_default(arg, Y) == IF Truthy(arg) THEN arg.val ELSE Len(Y[1])

\* A plausible slip: np.ones for np.zeros.
np_ones(rows, cols) == [m \in 1..rows |-> [l \in 1..cols |-> 1]]

\* np.zeros((rows, cols))
np_zeros(rows, cols) == [m \in 1..rows |-> [l \in 1..cols |-> 0]]

\* self._parameters + [self._V]
append_parameter(params, p) == params \o <<p>>

\* Gaussian(0., 1.)
Gaussian(mu, var) == [dist |-> "Gaussian", mu |-> mu, var |-> var]
NoPrior == [dist |-> "", mu |-> 0, var |-> 0]

\* The kernel: an integer stand-in for a stationary covariance function.
kern_K(x, z) == IF x = z THEN 2 ELSE 1

\* mean_function(Xnew): one column, Zero or the linear function x + 1.
mean_function_of(mf, Xnew) ==
    [n \in 1..Len(Xnew) |-> IF mf = "Linear" THEN Xnew[n] + 1 ELSE 0]

\* conditional(feature, kern, Xnew, f, full_cov, q_sqrt=None, white=True):
\* with A = Lm^-1 Kmn the mean is A^T f and the variance Knn - A^T A (the
\* diagonal, or the full matrix under full_cov), one copy per column of f.
\* Lm is taken to be the identity.
conditional(c) ==
    LET Zs == c.feature.Z
        A(m, n) == kern_K(Zs[m], c.Xnew[n])
        L == Len(c.f[1])
        cov(n1, n2) ==
            kern_K(c.Xnew[n1], c.Xnew[n2])
            - SeqSum([m \in 1..Len(Zs) |-> A(m, n1) * A(m, n2)])
    IN  [mean |-> [n \in 1..Len(c.Xnew) |-> [l \in 1..L |->
                      SeqSum([m \in 1..Len(Zs) |-> A(m, n) * c.f[m][l]])]],
         var  |-> IF c.full_cov
                  THEN [n1 \in 1..Len(c.Xnew) |-> [n2 \in 1..Len(c.Xnew) |->
                           [l \in 1..L |-> cov(n1, n2)]]]
                  ELSE [n \in 1..Len(c.Xnew) |-> [l \in 1..L |-> cov(n, n)]]]

\* The model object as the methods read it.
Self ==
    [X |-> args.X, Y |-> args.Y, kern |-> "kern",
     mean_function |-> GPModel_init(args).mean_function,
     feature |-> feature, V |-> V]

\* A plausible slip: the mean function left out of the prediction.
build_predict_no_mean_function(self, Xnew, full_cov) ==
    LET call == [feature |-> self.feature, kern |-> self.kern, Xnew |-> Xnew,
                 f |-> self.V, full_cov |-> full_cov, q_sqrt |-> "None", white |-> TRUE]
        cond == conditional(call)
    IN  [calls |-> <<call>>, mean |-> cond.mean, var |-> cond.var]

\* A plausible slip: full_cov not passed on to the conditional.
build_predict_drops_full_cov(self, Xnew, full_cov) ==
    LET call == [feature |-> self.feature, kern |-> self.kern, Xnew |-> Xnew,
                 f |-> self.V, full_cov |-> FALSE, q_sqrt |-> "None", white |-> TRUE]
        cond == conditional(call)
        mf   == mean_function_of(self.mean_function, Xnew)
    IN  [calls |-> <<call>>,
         mean  |-> [n \in 1..Len(Xnew) |-> [l \in 1..Len(cond.mean[n]) |->
                       cond.mean[n][l] + mf[n]]],
         var   |-> cond.var]

\* _build_predict(self, Xnew, full_cov): the calls made to conditional and
\* the pair returned; the one-column mean function is broadcast over the
\* columns of mu.
build_predict(self, Xnew, full_cov) ==
    LET call == [feature |-> self.feature, kern |-> self.kern, Xnew |-> Xnew,
                 f |-> self.V, full_cov |-> full_cov, q_sqrt |-> "None", white |-> TRUE]
        cond == conditional(call)
        mf   == mean_function_of(self.mean_function, Xnew)
    IN  [calls |-> <<call>>,
         mean  |-> [n \in 1..Len(Xnew) |-> [l \in 1..Len(cond.mean[n]) |->
                       cond.mean[n][l] + mf[n]]],
         var   |-> cond.var]

\* Whether arrays with a and b columns broadcast against each other.
Broadcasts(a, b) == a = b \/ a = 1 \/ b = 1

\* likelihood.variational_expectations(Fmu, Fvar, Y), elementwise with
\* broadcasting over the columns: an integer stand-in for the Gaussian
\* likelihood's -((Y - Fmu)^2 + Fvar).
variational_expectations(Fmu, Fvar, Y) ==
    LET L    == Len(Fmu[1])
        R    == Len(Y[1])
        cols == IF L >= R THEN L ELSE R
        at(row, j) == IF Len(row) = 1 THEN row[1] ELSE row[j]
    IN  [n \in 1..Len(Y) |-> [j \in 1..cols |->
            0 - ((at(Y[n], j) - at(Fmu[n], j)) * (at(Y[n], j) - at(Fmu[n], j))
                 + at(Fvar[n], j))]]

\* tf.reduce_sum over every element of a two-dimensional array.
reduce_sum(a) == SeqSum([n \in 1..Len(a) |-> SeqSum(a[n])])

\* _build_likelihood(self): the calls made to conditional and the outcome:
\* the sum returned, or the shape error of arrays that do not broadcast.
build_likelihood(self) ==
    LET pred == build_predict(self, self.X, FALSE)
    IN  IF Broadcasts(Len(pred.mean[1]), Len(self.Y[1]))
        THEN [calls |-> pred.calls, status |-> "return",
              value |-> reduce_sum(variational_expectations(pred.mean, pred.var, self.Y))]
        ELSE [calls |-> pred.calls, status |-> "raise", value |-> 0]

NoOp ==
    [op |-> "none", Xnew |-> <<>>, full_cov |-> FALSE, calls |-> <<>>,
     status |-> "", value |-> 0, mean |-> <<>>, var |-> <<>>]

SgpmcIdle ==
    /\ pc = "idle" /\ args = <<>> /\ num_data = 0 /\ num_latent = 0
    /\ feature = [Z |-> <<>>] /\ V = <<>> /\ V_prior = NoPrior
    /\ parameters = <<>> /\ last_op = NoOp

SgpmcInit ==
    /\ pc = "start"
    /\ args \in Args
    /\ num_data = 0 /\ num_latent = 0
    /\ feature = [Z |-> <<>>] /\ V = <<>> /\ V_prior = NoPrior
    /\ parameters = <<>> /\ last_op = NoOp

\* SGPMC.__init__
Construct ==
    /\ pc = "start"
    /\ LET base == GPModel_init(args)
           feat == inducingpoint_wrapper(args)
           L    == num_latent_or_default(args.num_latent, args.Y)
       IN  /\ num_data' = Len(args.X)
           /\ num_latent' = L
           /\ feature' = feat
           /\ V' = np_zeros(feature_len(feat), L)
           /\ V_prior' = Gaussian(0, 1)
           /\ parameters' = append_parameter(base.parameters, "V")
    /\ last_op' = [NoOp EXCEPT !.op = "Construct", !.status = "return"]
    /\ pc' = "constructed"
    /\ UNCHANGED args
    /\ UNCHANGED <<tri_vars, norm_vars, pv_vars>>

\* The V property: the parameter's current value.
ReadV ==
    /\ pc = "constructed"
    /\ last_op' = [NoOp EXCEPT !.op = "V", !.status = "return", !.mean = V]
    /\ UNCHANGED <<pc, args, num_data, num_latent, feature, V, V_prior, parameters>>
    /\ UNCHANGED <<tri_vars, norm_vars, pv_vars>>

\* A plausible slip: computing the likelihood resets V to zero.
ComputeLikelihood_resets_V ==
    /\ pc = "constructed"
    /\ LET out == build_likelihood(Self)
       IN  last_op' = [NoOp EXCEPT !.op = "ComputeLikelihood", !.Xnew = args.X,
                            !.calls = out.calls, !.status = out.status,
                            !.value = out.value]
    /\ V' = np_zeros(Len(V), Len(V[1]))
    /\ UNCHANGED <<pc, args, num_data, num_latent, feature, V_prior, parameters>>
    /\ UNCHANGED <<tri_vars, norm_vars, pv_vars>>

\* _build_likelihood, evaluated
ComputeLikelihood ==
    /\ pc = "constructed"
    /\ LET out == build_likelihood(Self)
       IN  last_op' = [NoOp EXCEPT !.op = "ComputeLikelihood", !.Xnew = args.X,
                            !.calls = out.calls, !.status = out.status,
                            !.value = out.value]
    /\ UNCHANGED <<pc, args, num_data, num_latent, feature, V, V_prior, parameters>>
    /\ UNCHANGED <<tri_vars, norm_vars, pv_vars>>

\* _build_predict, evaluated
Predict(Xnew, full_cov) ==
    /\ pc = "constructed"
    /\ LET out == build_predict(Self, Xnew, full_cov)
       IN  last_op' = [NoOp EXCEPT !.op = "Predict", !.Xnew = Xnew,
                            !.full_cov = full_cov, !.calls = out.calls,
                            !.status = "return", !.mean = out.mean, !.var = out.var]
    /\ UNCHANGED <<pc, args, num_data, num_latent, feature, V, V_prior, parameters>>
    /\ UNCHANGED <<tri_vars, norm_vars, pv_vars>>

\* The inputs Predict is tried at: the training X and two others.
XnewSet == {args.X, <<0>>, <<2, 1>>}

\* The values an optimiser or sampler is tried to give V: the constant
\* matrices -1, 0 and 1 and the matrices with a single 1.
VUpdates(rows, cols) ==
    {[m \in 1..rows |-> [l \in 1..cols |-> c]] : c \in {0 - 1, 0, 1}}
    \cup {[m \in 1..rows |-> [l \in 1..cols |-> IF <<m, l>> = ml THEN 1 ELSE 0]] :
            ml \in (1..rows) \X (1..cols)}

\* The parameter's own update mechanism, driven from outside the model.
UpdateV(v) ==
    /\ pc = "constructed"
    /\ V' = v
    /\ last_op' = [NoOp EXCEPT !.op = "Update", !.status = "return"]
    /\ UNCHANGED <<pc, args, num_data, num_latent, feature, V_prior, parameters>>
    /\ UNCHANGED <<tri_vars, norm_vars, pv_vars>>

(***************************************************************************)
(* The specifications                                                      *)
(***************************************************************************)

InitTri == TriInit /\ NormIdle /\ ParamIdle /\ SgpmcIdle
NextTri == VecToTri
SpecTri == InitTri /\ [][NextTri]_vars

InitNorm == TriIdle /\ NormInit /\ ParamIdle /\ SgpmcIdle
NextNorm == Normalize
SpecNorm == InitNorm /\ [][NextNorm]_vars

InitParam == TriIdle /\ NormIdle /\ ParamInit /\ SgpmcIdle
NextParam == CallIsValidParamValue \/ CallIsNumber
SpecParam == InitParam /\ [][NextParam]_vars

Init == TriIdle /\ NormIdle /\ ParamIdle /\ SgpmcInit
Next ==
    \/ Construct
    \/ ReadV
    \/ ComputeLikelihood
    \/ \E Xnew \in XnewSet, full_cov \in BOOLEAN : Predict(Xnew, full_cov)
    \/ \E v \in VUpdates(Len(V), num_latent) : UpdateV(v)
Spec == Init /\ [][Next]_vars

(***************************************************************************)
(* The properties checked                                                  *)
(***************************************************************************)

\* The 0-based position, in a vector, of the lower-triangular entry (i, j).
TriPos(i, j) == (i * (i + 1)) \div 2 + j

\* C1: vec_to_tri returns one n x n matrix per input vector, in the order of
\* the batch; the d-th matrix holds the d-th vector's k-th element at the
\* k-th lower-triangular position, counted row by row and left to right,
\* and zero above the diagonal; it is the matrix the d-th vector gives when
\* passed alone; and n = 3, [1..6] gives [[1,0,0],[2,3,0],[4,5,6]].
C1_VecToTriLayout ==
    tri_pc = "done" =>
        /\ Len(tri_out) = Len(vectors)
        /\ \A d \in 1..Len(vectors) :
            /\ DOMAIN tri_out[d] = (0..(N - 1)) \X (0..(N - 1))
            /\ \A i, j \in 0..(N - 1) :
                 tri_out[d][<<i, j>>] =
                    IF j <= i THEN vectors[d][TriPos(i, j) + 1] ELSE 0
            /\ tri_out[d] = vec_to_tri(<<vectors[d]>>, N)[1]
            /\ (N = 3 /\ vectors[d] = <<1, 2, 3, 4, 5, 6>>) =>
                 /\ <<tri_out[d][<<0, 0>>], tri_out[d][<<0, 1>>], tri_out[d][<<0, 2>>]>> = <<1, 0, 0>>
                 /\ <<tri_out[d][<<1, 0>>], tri_out[d][<<1, 1>>], tri_out[d][<<1, 2>>]>> = <<2, 3, 0>>
                 /\ <<tri_out[d][<<2, 0>>], tri_out[d][<<2, 1>>], tri_out[d][<<2, 2>>]>> = <<4, 5, 6>>

\* A batch of two different vectors of length 6 has been unpacked into two
\* 3 x 3 matrices, the first being the documented example.
C1_Witness ==
    /\ tri_pc = "done" /\ N = 3 /\ Len(vectors) = 2
    /\ vectors[1] = <<1, 2, 3, 4, 5, 6>>
    /\ vectors[2] = <<6, 5, 4, 3, 2, 1>>
    /\ tri_out[1][<<1, 0>>] = 2 /\ tri_out[1][<<0, 1>>] = 0
    /\ tri_out[2][<<2, 2>>] = 1 /\ tri_out[2][<<0, 2>>] = 0

\* The lower triangle of mat read row by row from row i on, left to right.
RECURSIVE ReadLowerTriangle(_, _, _)
ReadLowerTriangle(mat, n, i) ==
    IF i >= n THEN <<>>
    ELSE [j \in 1..(i + 1) |-> mat[<<i, j - 1>>]] \o ReadLowerTriangle(mat, n, i + 1)

\* C2: reading the lower triangle (diagonal included) of each output matrix
\* row by row gives back the input vector, and two different vectors of a
\* batch never give the same matrix.
C2_VecToTriRoundTrip ==
    tri_pc = "done" =>
        /\ \A d \in 1..Len(vectors) :
             ReadLowerTriangle(tri_out[d], N, 0) = vectors[d]
        /\ \A d1, d2 \in 1..Len(vectors) :
             vectors[d1] # vectors[d2] => tri_out[d1] # tri_out[d2]

\* Two different unit vectors of length 6 have been unpacked and read back.
C2_Witness ==
    /\ tri_pc = "done" /\ N = 3 /\ Len(vectors) = 2
    /\ vectors[1] = <<0, 1, 0, 0, 0, 0>>
    /\ vectors[2] = <<0, 0, 0, 0, 1, 0>>
    /\ tri_out[1] # tri_out[2]
    /\ ReadLowerTriangle(tri_out[2], N, 0) = <<0, 0, 0, 0, 1, 0>>

\* The descriptors of 32- and 64-bit floats and of 16-, 32- and 64-bit
\* signed integers: the numpy types, their dtypes and their tf.DType handles.
FloatDescriptors ==
    {[kind |-> k, name |-> n] : k \in {"np", "np.dtype"}, n \in {"float32", "float64"}}
    \cup {[kind |-> "tf", name |-> n] : n \in {"float", "double"}}
IntDescriptors ==
    {[kind |-> k, name |-> n] : k \in {"np", "np.dtype", "tf"}, n \in {"int16", "int32", "int64"}}

IsScalarElem(e) == isinstance(e, {"float", "int"})
\* An array in the sense of is_valid_param_value: a list or an ndarray.
IsArrayElem(e) == isinstance(e, {"list", "np.ndarray"})

\* C4: on a list, is_valid_param_value is false for the empty list, true
\* for every non-empty list of float/int scalars of one type, false for
\* every list holding both a scalar and an array, and in general true
\* exactly when the first element is a scalar or an array and every later
\* element is of that same class.
C4_ListValidity ==
    (pv_pc = "done" /\ pv_out.fn = "is_valid_param_value" /\ value.cls = "list") =>
        LET xs == value.items
            n  == Len(xs)
        IN  /\ n = 0 => pv_out.result = FALSE
            /\ (n > 0 /\ \A i \in 1..n : IsScalarElem(xs[i]) /\ xs[i].cls = xs[1].cls)
                 => pv_out.result = TRUE
            /\ ((\E i \in 1..n : IsScalarElem(xs[i])) /\ (\E i \in 1..n : IsArrayElem(xs[i])))
                 => pv_out.result = FALSE
            /\ n > 0 =>
                 pv_out.result =
                    (\/ \A i \in 1..n : IsScalarElem(xs[i])
                     \/ \A i \in 1..n : IsArrayElem(xs[i]))

\* A list of a scalar, an array and a scalar has been rejected.
C4_Witness ==
    /\ pv_pc = "done" /\ pv_out.fn = "is_valid_param_value"
    /\ value = [cls |-> "list", items |-> <<Obj("float"), Obj("np.ndarray"), Obj("float")>>]
    /\ pv_out.result = FALSE

\* A scalar numeric value, and a textual value.
IsNumericScalar(v) ==
    v.cls \in {"float", "int", "bool", "complex", "np.float64", "np.float32", "np.int64"}
IsText(v) == v.cls \in {"str", "np.str_", "bytes"}

\* C5: on a value that is not a list, is_valid_param_value is true exactly
\* when the value is not None and is a number, an ndarray or a tensor; and
\* is_number is true exactly for scalar numeric values that are not text.
C5_NonListValidity ==
    (pv_pc = "done" /\ value.cls # "list") =>
        /\ pv_out.fn = "is_valid_param_value" =>
             pv_out.result =
                (value.cls # "NoneType"
                 /\ (is_number(value) \/ is_ndarray(value) \/ is_tensor(value)))
        /\ pv_out.fn = "is_number" =>
             pv_out.result = (IsNumericScalar(value) /\ ~ IsText(value))

\* The part of C5 that holds: the grouping of `and` and `or` makes no
\* difference, None being neither an ndarray nor a tensor.
NonListValidityGrouping ==
    (pv_pc = "done" /\ value.cls # "list" /\ pv_out.fn = "is_valid_param_value") =>
        pv_out.result =
            (value.cls # "NoneType"
             /\ (is_number(value) \/ is_ndarray(value) \/ is_tensor(value)))

IsZeroMatrix(a) == \A m \in 1..Len(a) : \A l \in 1..Len(a[m]) : a[m][l] = 0

\* C6: a constructed SGPMC has a V of shape (M, L), M the number of inducing
\* points and L num_latent, with a Gaussian(0, 1) prior, and a parameter
\* list that is the base model's list followed by V; right after
\* construction every entry of V is zero.
C6_Construction ==
    pc = "constructed" =>
        /\ Len(V) = Len(args.Z)
        /\ \A m \in 1..Len(V) : Len(V[m]) = num_latent
        /\ V_prior = [dist |-> "Gaussian", mu |-> 0, var |-> 1]
        /\ Len(parameters) = Len(GPModel_init(args).parameters) + 1
        /\ SubSeq(parameters, 1, Len(parameters) - 1) = GPModel_init(args).parameters
        /\ parameters[Len(parameters)] = "V"
        /\ last_op.op = "Construct" => IsZeroMatrix(V)

\* A model with two inducing points and an overriding num_latent of 2 has
\* just been constructed.
C6_Witness ==
    /\ pc = "constructed" /\ last_op.op = "Construct"
    /\ Len(args.Z) = 2 /\ args.num_latent = Some(2) /\ Len(args.Y[1]) = 1
    /\ V = <<<<0, 0>>, <<0, 0>>>>
    /\ parameters = <<"kern", "likelihood", "mean_function", "V">>

\* C7 as stated: num_latent is the caller's argument whenever one is
\* supplied, whatever its value, and the number of columns of Y otherwise;
\* V has num_latent columns and num_data is the number of rows of X.
C7_NumLatentAsStated ==
    pc = "constructed" =>
        /\ num_latent = IF args.num_latent.given
                        THEN args.num_latent.val ELSE Len(args.Y[1])
        /\ \A m \in 1..Len(V) : Len(V[m]) = num_latent
        /\ num_data = Len(args.X)

\* C7 as amended: num_latent is the caller's argument whenever a non-zero
\* one is supplied, and the number of columns of Y when none or zero is;
\* V has num_latent columns and num_data is the number of rows of X.
C7_NumLatent ==
    pc = "constructed" =>
        /\ num_latent = IF args.num_latent.given /\ args.num_latent.val # 0
                        THEN args.num_latent.val ELSE Len(args.Y[1])
        /\ \A m \in 1..Len(V) : Len(V[m]) = num_latent
        /\ num_data = Len(args.X)

\* A model has been constructed with num_latent = 0 supplied and a Y of two
\* columns, and has two latent dimensions.
C7_Witness ==
    /\ pc = "constructed"
    /\ args.num_latent = Some(0) /\ Len(args.Y[1]) = 2
    /\ num_latent = 2 /\ Len(V[1]) = 2 /\ num_data = Len(args.X)

\* C8: whenever V is all zero, the mean Predict returns at Xnew is
\* mean_function(Xnew) in every column.
C8_ZeroVPredictsMeanFunction ==
    (last_op.op = "Predict" /\ IsZeroMatrix(V)) =>
        LET mf == mean_function_of(GPModel_init(args).mean_function, last_op.Xnew)
        IN  last_op.mean =
                [n \in 1..Len(last_op.Xnew) |-> [l \in 1..num_latent |-> mf[n]]]

\* Predict has been evaluated at the two training inputs of a model with a
\* linear mean function whose V is all zero.
C8_Witness ==
    /\ last_op.op = "Predict" /\ IsZeroMatrix(V)
    /\ last_op.Xnew = args.X /\ Len(args.X) = 2
    /\ args.mean_function = "Linear"
    /\ last_op.mean[2][1] = args.X[2] + 1

\* C9: a step that reads V, computes the likelihood or predicts leaves V,
\* its prior, the feature, num_data, num_latent, the parameter list and the
\* data unchanged; V changes only by construction or an update; repeating
\* an evaluation with the same arguments gives the same result; and the
\* likelihood and the prediction are those of the current V, X and Y.
C9_EvaluationReadOnly ==
    [][/\ last_op'.op \in {"V", "ComputeLikelihood", "Predict"} =>
            /\ UNCHANGED <<V, V_prior, feature, num_data, num_latent, parameters, args>>
            /\ (/\ last_op.op = last_op'.op
                /\ last_op.Xnew = last_op'.Xnew
                /\ last_op.full_cov = last_op'.full_cov) => last_op' = last_op
       /\ V' # V => last_op'.op \in {"Construct", "Update"}
       /\ last_op'.op = "ComputeLikelihood" =>
            last_op'.value = build_likelihood(Self').value
       /\ last_op'.op = "Predict" =>
            last_op'.mean = build_predict(Self', last_op'.Xnew, last_op'.full_cov).mean
      ]_vars

\* The likelihood has been computed for a V that an update made non-zero.
C9_Witness ==
    /\ last_op.op = "ComputeLikelihood" /\ last_op.status = "return"
    /\ ~ IsZeroMatrix(V)
    /\ Len(args.X) = 2

\* The variational expectations of the marginals at the training inputs,
\* summed over data points n and output dimensions j.
ExpectedLikelihood ==
    LET cond == conditional([feature |-> feature, kern |-> "kern", Xnew |-> args.X,
                             f |-> V, full_cov |-> FALSE, q_sqrt |-> "None",
                             white |-> TRUE])
        mf   == mean_function_of(GPModel_init(args).mean_function, args.X)
        R    == Len(args.Y[1])
        cols == IF num_latent >= R THEN num_latent ELSE R
        y(n, j)    == IF R = 1 THEN args.Y[n][1] ELSE args.Y[n][j]
        fmu(n, j)  == (IF num_latent = 1 THEN cond.mean[n][1] ELSE cond.mean[n][j]) + mf[n]
        fvar(n, j) == IF num_latent = 1 THEN cond.var[n][1] ELSE cond.var[n][j]
        term == [nj \in (1..Len(args.X)) \X (1..cols) |->
                    0 - ((y(nj[1], nj[2]) - fmu(nj[1], nj[2]))
                            * (y(nj[1], nj[2]) - fmu(nj[1], nj[2]))
                         + fvar(nj[1], nj[2]))]
    IN  SetSum((1..Len(args.X)) \X (1..cols), term)

\* C10: Predict calls conditional once, with the model's feature and
\* kernel, Xnew, the current V, the caller's full_cov, q_sqrt = None and
\* white = True, and returns the conditional's mean plus mean_function(Xnew)
\* and the conditional's variance as it is; ComputeLikelihood calls it once
\* at the training X with full_cov = False and returns the sum of the
\* likelihood's variational expectations of those marginals against Y.
C10_PredictCallsConditional ==
    /\ last_op.op = "Predict" =>
        LET call == [feature |-> feature, kern |-> "kern", Xnew |-> last_op.Xnew,
                     f |-> V, full_cov |-> last_op.full_cov, q_sqrt |-> "None",
                     white |-> TRUE]
            mf   == mean_function_of(GPModel_init(args).mean_function, last_op.Xnew)
        IN  /\ last_op.calls = <<call>>
            /\ last_op.var = conditional(call).var
            /\ Len(last_op.mean) = Len(last_op.Xnew)
            /\ \A n \in 1..Len(last_op.Xnew) : \A l \in 1..num_latent :
                 last_op.mean[n][l] = conditional(call).mean[n][l] + mf[n]
    /\ last_op.op = "ComputeLikelihood" =>
        /\ last_op.calls = <<[feature |-> feature, kern |-> "kern", Xnew |-> args.X,
                              f |-> V, full_cov |-> FALSE, q_sqrt |-> "None",
                              white |-> TRUE]>>
        /\ last_op.status = "return" => last_op.value = ExpectedLikelihood

\* Predict has been evaluated with full_cov = True at two new inputs for a
\* non-zero V, and returned a full covariance.
C10_Witness ==
    /\ last_op.op = "Predict" /\ last_op.full_cov = TRUE
    /\ ~ IsZeroMatrix(V)
    /\ last_op.Xnew = <<2, 1>>
    /\ last_op.calls[1].full_cov = TRUE
    /\ Len(last_op.var[1]) = 2

====
